---- MODULE Spec2Model ----
(***************************************************************************)
(* Model of projects/unit3/build-mcp-server/starter/server.py: the three   *)
(* MCP tools analyze_file_changes, get_pr_templates and suggest_template.  *)
(*                                                                         *)
(* A text that the code splits into lines (the stdout of `git diff`) is a  *)
(* sequence of chunks: the chunk NL is one newline character, every other  *)
(* chunk is a newline-free piece of text.  All other strings are TLA+      *)
(* strings.  A tool's JSON payload is modelled as the object that          *)
(* json.dumps serialises (a record whose field names are the JSON keys).   *)
(***************************************************************************)
EXTENDS Integers, Sequences, FiniteSets, TLC

VARIABLES op, args, env, outcome, result, calls

vars == <<op, args, env, outcome, result, calls>>

(***************************************************************************)
(* Bounds of the model.                                                    *)
(***************************************************************************)
MaxTextLen == 4
MaxRoots == 2
MaxMaxDiffLines == 3
NegMaxDiffLines == 2

(***************************************************************************)
(* Python helpers used by the handlers.                                    *)
(***************************************************************************)
NL == "\n"

None == "None"

Min(a, b) == IF a <= b THEN a ELSE b

Max(a, b) == IF a >= b THEN a ELSE b

\* str.split("\n"): the pieces between newlines; always at least one piece,
\* and a text that ends in a newline yields a final empty piece.
RECURSIVE StrSplit(_)
StrSplit(text) ==
  IF text = <<>> THEN << <<>> >>
  ELSE LET rest == StrSplit(Tail(text))
       IN IF Head(text) = NL
          THEN << <<>> >> \o rest
          ELSE << <<Head(text)>> \o rest[1] >> \o Tail(rest)

\* "\n".join(lines)
RECURSIVE StrJoin(_)
StrJoin(lines) ==
  IF Len(lines) = 0 THEN <<>>
  ELSE IF Len(lines) = 1 THEN lines[1]
  ELSE lines[1] \o <<NL>> \o StrJoin(Tail(lines))

\* seq[:n] with Python's slice semantics: a negative n counts from the end.
PySliceTo(seq, n) ==
  LET stop == IF n >= 0 THEN Min(n, Len(seq)) ELSE Max(Len(seq) + n, 0)
  IN SubSeq(seq, 1, stop)

\* not working_directory
Falsy(wd) == wd \in {None, ""}

\* The two trailer lines of a truncated diff (newline-free chunks).
TruncatedTrailer(max_diff_lines, n) ==
  "... Output truncated. Showing " \o ToString(max_diff_lines) \o " of "
    \o ToString(n) \o " lines ..."

UseMoreTrailer == "... Use max_diff_lines parameter to see more ..."

\* DiffTruncation keeping one line more than max_diff_lines.
DiffTruncationOneMore(text, max_diff_lines) ==
  LET diff_lines == StrSplit(text)
  IN IF Len(diff_lines) > max_diff_lines
     THEN [diff_content |->
             StrJoin(PySliceTo(diff_lines, max_diff_lines + 1))
               \o <<NL, NL, TruncatedTrailer(max_diff_lines, Len(diff_lines))>>
               \o <<NL, UseMoreTrailer>>,
           truncated |-> TRUE,
           diff_lines |-> diff_lines]
     ELSE [diff_content |-> text, truncated |-> FALSE, diff_lines |-> diff_lines]

\* Lines 117-124: the truncation of the diff text.
DiffTruncation(text, max_diff_lines) ==
  LET diff_lines == StrSplit(text)
  IN IF Len(diff_lines) > max_diff_lines
     THEN [diff_content |->
             StrJoin(PySliceTo(diff_lines, max_diff_lines))
               \o <<NL, NL, TruncatedTrailer(max_diff_lines, Len(diff_lines))>>
               \o <<NL, UseMoreTrailer>>,
           truncated |-> TRUE,
           diff_lines |-> diff_lines]
     ELSE [diff_content |-> text, truncated |-> FALSE, diff_lines |-> diff_lines]

(***************************************************************************)
(* Collaborators: the session's root listing, the process, and git.        *)
(***************************************************************************)
ProcessCwd == "/srv/process-cwd"

ServerFileLocation == "/srv/app/starter"

RootUris == {"file:///repo", "file:///other"}

\* root.uri.path
UriPath(uri) == IF uri = "file:///repo" THEN "/repo" ELSE "/other"

RootLists == UNION {[1..n -> RootUris] : n \in 0..MaxRoots}

\* One `mcp.get_context()` + `await context.session.list_roots()`: it raises
\* (no request context, client without the roots capability, request error) or
\* returns a list of roots.  NotAsked is the placeholder of a listing the
\* handler did not perform.
ListRootsReplies ==
  {[asked |-> TRUE, ok |-> FALSE, roots |-> <<>>, error |-> "roots unavailable"]}
    \cup {[asked |-> TRUE, ok |-> TRUE, roots |-> r, error |-> ""] : r \in RootLists}

NotAsked == [asked |-> FALSE, ok |-> FALSE, roots |-> <<>>, error |-> ""]

Branches == {"main"}

WorkingDirectories == {None, "", "/explicit"}

MaxDiffLinesValues == (0 - NegMaxDiffLines)..MaxMaxDiffLines

Chunks == {"a", NL}

DiffTexts == UNION {[1..n -> Chunks] : n \in 0..MaxTextLen}

\* A subprocess.run of git.  launched = FALSE: the child could not be started
\* (git missing, cwd missing) and run raises OSError; git and cwd are the same
\* for the runs of one call, so this hits the first run.  A git that dies
\* (bad revision, not a repository, unknown option) writes nothing to stdout.
NotRun == [launched |-> FALSE, returncode |-> 0, stdout |-> "", stderr |-> ""]

FilesRuns ==
  {[launched |-> TRUE, returncode |-> 0, stdout |-> "M\tserver.py\n", stderr |-> ""],
   [launched |-> TRUE, returncode |-> 128, stdout |-> "",
    stderr |-> "fatal: bad revision\n"],
   [launched |-> TRUE, returncode |-> 128, stdout |-> "",
    stderr |-> "fatal: not a git repository\n"],
   [launched |-> FALSE, returncode |-> 0, stdout |-> "",
    stderr |-> "[Errno 2] No such file or directory: 'git'"]}

StatRuns ==
  {[launched |-> TRUE, returncode |-> 0, stdout |-> " 1 file changed\n", stderr |-> ""],
   [launched |-> TRUE, returncode |-> 128, stdout |-> "", stderr |-> "fatal: bad revision\n"]}

DiffRuns ==
  {[launched |-> TRUE, returncode |-> 0, stdout |-> t, stderr |-> ""] : t \in DiffTexts}
    \cup {[launched |-> TRUE, returncode |-> 128, stdout |-> <<>>,
           stderr |-> "fatal: bad revision\n"]}

\* The handler passes "--online" (not "--oneline"): git rejects the option.
LogRuns ==
  {[launched |-> TRUE, returncode |-> 128, stdout |-> "",
    stderr |-> "fatal: unrecognized argument: --online\n"]}

(***************************************************************************)
(* analyze_file_changes                                                    *)
(***************************************************************************)
\* subprocess.run without check=True: a non-zero exit raises nothing.
CalledProcessErrorUnchecked(run) == FALSE

\* Lines 92-98, check=True: a started git that exits non-zero raises
\* CalledProcessError.
CalledProcessError(run) == run.launched /\ run.returncode # 0

\* ResolvedWorkingDirectory taking the last root instead of the first.
ResolvedWorkingDirectoryLastRoot(working_directory, first) ==
  IF Falsy(working_directory)
  THEN IF first.ok /\ Len(first.roots) > 0
       THEN UriPath(first.roots[Len(first.roots)])
       ELSE working_directory
  ELSE working_directory

\* Lines 63-69: working_directory after the first root listing.
ResolvedWorkingDirectory(working_directory, first) ==
  IF Falsy(working_directory)
  THEN IF first.ok /\ Len(first.roots) > 0
       THEN UriPath(first.roots[1])
       ELSE working_directory
  ELSE working_directory

\* Line 71.
Cwd(working_directory) ==
  IF ~Falsy(working_directory) THEN working_directory ELSE ProcessCwd

\* Lines 81-90: the second, independent root listing.
RootsCheck(second) ==
  IF second.ok
  THEN [found |-> TRUE, count |-> Len(second.roots), roots |-> second.roots]
  ELSE [found |-> FALSE, error |-> second.error]

\* Lines 73-90.
DebugInfo(working_directory, cwd, second) ==
  [provided_working_directory |-> working_directory,
   actual_cwd |-> cwd,
   server_process_cwd |-> ProcessCwd,
   server_file_location |-> ServerFileLocation,
   roots_check |-> RootsCheck(second)]

FilesArgv(base_branch) == <<"git", "diff", "--name-status", base_branch \o "...HEAD">>

StatArgv(base_branch) == <<"git", "diff", "--stat", base_branch \o "...HEAD">>

DiffArgv(base_branch) == <<"git", "diff", base_branch \o "...HEAD">>

LogArgv(base_branch) == <<"git", "log", "--online", base_branch \o "..HEAD">>

Invocation(argv, cwd) == [argv |-> argv, cwd |-> cwd]

\* Lines 133-148: the keys of the success object as the code spells them.
Analysis(base_branch, include_diff, files, stat, log, trunc, debug_info) ==
  [base_branch |-> base_branch,
   files_cahnged |-> files.stdout,
   statistics |-> stat.stdout,
   commits |-> log.stdout,
   diff |-> IF include_diff THEN trunc.diff_content
            ELSE <<"Diff not included (set include_diff=true to see full diff)">>,
   truncated |-> trunc.truncated,
   total_diff_lens |-> IF include_diff THEN Len(trunc.diff_lines) ELSE 0,
   _debug |-> debug_info]

\* Lines 107-108: the values when include_diff is false.
NoDiff == [diff_content |-> <<>>, truncated |-> FALSE, diff_lines |-> <<>>]

\* The whole handler, lines 62-154: the returned object and the git runs made.
AnalyzeFileChangesBody(base_branch, include_diff, max_diff_lines, working_directory, first, second, files, stat, diff, log) ==
  LET wd == ResolvedWorkingDirectory(working_directory, first)
      cwd == Cwd(wd)
      debug_info == DebugInfo(wd, cwd, second)
      filesCall == <<Invocation(FilesArgv(base_branch), cwd)>>
      statCall == <<Invocation(StatArgv(base_branch), cwd)>>
      diffCall == IF include_diff THEN <<Invocation(DiffArgv(base_branch), cwd)>> ELSE <<>>
      logCall == <<Invocation(LogArgv(base_branch), cwd)>>
      trunc == IF include_diff THEN DiffTruncation(diff.stdout, max_diff_lines) ELSE NoDiff
  IN IF ~files.launched
     THEN [result |-> [error |-> files.stderr], calls |-> filesCall]
     ELSE IF CalledProcessError(files)
     THEN [result |-> [error |-> "Git error: " \o files.stderr], calls |-> filesCall]
     ELSE [result |-> Analysis(base_branch, include_diff, files, stat, log, trunc, debug_info),
           calls |-> filesCall \o statCall \o diffCall \o logCall]

AnalyzeFileChanges ==
  /\ op = "idle"
  /\ \E base_branch \in Branches, include_diff \in BOOLEAN,
        max_diff_lines \in MaxDiffLinesValues,
        working_directory \in WorkingDirectories,
        second \in ListRootsReplies, files \in FilesRuns :
       \E first \in IF Falsy(working_directory) THEN ListRootsReplies ELSE {NotAsked} :
       \E stat \in IF files.launched /\ files.returncode = 0 THEN StatRuns ELSE {NotRun} :
       \E diff \in IF files.launched /\ files.returncode = 0 /\ include_diff
                   THEN DiffRuns ELSE {NotRun} :
       \E log \in IF files.launched /\ files.returncode = 0 THEN LogRuns ELSE {NotRun} :
         LET r == AnalyzeFileChangesBody(base_branch, include_diff, max_diff_lines,
                                         working_directory, first, second,
                                         files, stat, diff, log)
         IN /\ op' = "analyze_file_changes"
            /\ args' = [base_branch |-> base_branch, include_diff |-> include_diff,
                        max_diff_lines |-> max_diff_lines,
                        working_directory |-> working_directory]
            /\ env' = [first |-> first, second |-> second, files |-> files,
                       stat |-> stat, diff |-> diff, log |-> log]
            /\ outcome' = "returned"
            /\ result' = r.result
            /\ calls' = r.calls

NoArgs == [none |-> TRUE]

NoEnv == [none |-> TRUE]

NoResult == [none |-> TRUE]

(***************************************************************************)
(* The template catalog and the change-type resolver.                      *)
(***************************************************************************)
\* Lines 20-28, in declaration order.
DEFAULT_TEMPLATES ==
  <<[filename |-> "bug.md", type |-> "Bug Fix"],
    [filename |-> "feature.md", type |-> "Feature"],
    [filename |-> "docs.md", type |-> "Documentation"],
    [filename |-> "refactor.md", type |-> "Refactor"],
    [filename |-> "test.md", type |-> "Test"],
    [filename |-> "performance.md", type |-> "Performance"],
    [filename |-> "security.md", type |-> "Security"]>>

\* Lines 30-44; a key is the sequence of its characters.
TYPE_MAPPING ==
  {[key |-> <<"b", "u", "g">>, file |-> "bug.md"],
   [key |-> <<"f", "i", "x">>, file |-> "bug.md"],
   [key |-> <<"f", "e", "a", "t", "u", "r", "e">>, file |-> "feature.md"],
   [key |-> <<"e", "n", "h", "a", "n", "c", "e", "m", "e", "n", "t">>, file |-> "feature.md"],
   [key |-> <<"d", "o", "c", "s">>, file |-> "docs.md"],
   [key |-> <<"d", "o", "c", "u", "m", "e", "n", "t", "a", "t", "i", "o", "n">>, file |-> "docs.md"],
   [key |-> <<"r", "e", "f", "a", "c", "t", "o", "r">>, file |-> "refactor.md"],
   [key |-> <<"c", "l", "e", "a", "n", "u", "p">>, file |-> "refactor.md"],
   [key |-> <<"t", "e", "s", "t">>, file |-> "test.md"],
   [key |-> <<"t", "e", "s", "t", "i", "n", "g">>, file |-> "test.md"],
   [key |-> <<"p", "e", "r", "f", "o", "r", "m", "a", "n", "c", "e">>, file |-> "performance.md"],
   [key |-> <<"o", "p", "t", "i", "m", "i", "z", "a", "t", "i", "o", "n">>, file |-> "performance.md"],
   [key |-> <<"s", "e", "c", "u", "r", "i", "t", "y">>, file |-> "security.md"]}

UpperLetters == <<"A", "B", "C", "D", "E", "F", "G", "H", "I", "J", "K", "L", "M", "N", "O", "P", "Q", "R", "S", "T", "U", "V", "W", "X", "Y", "Z">>

LowerLetters == <<"a", "b", "c", "d", "e", "f", "g", "h", "i", "j", "k", "l", "m", "n", "o", "p", "q", "r", "s", "t", "u", "v", "w", "x", "y", "z">>

\* str.lower() on one character.
LowerChar(c) ==
  IF \E i \in 1..26 : UpperLetters[i] = c
  THEN LowerLetters[CHOOSE i \in 1..26 : UpperLetters[i] = c]
  ELSE c

\* A lookup that does not fold the case.
LowerIdentity(str) == str

\* change_type.lower()
Lower(str) == [i \in 1..Len(str) |-> LowerChar(str[i])]

\* TYPE_MAPPING.get(key, default)
TypeMappingGet(key, default) ==
  IF \E e \in TYPE_MAPPING : e.key = key
  THEN (CHOOSE e \in TYPE_MAPPING : e.key = key).file
  ELSE default

TemplateFiles == {DEFAULT_TEMPLATES[i].filename : i \in 1..Len(DEFAULT_TEMPLATES)}

\* The templates directory: the set of template files that cannot be read.
UnreadableSets == {{}} \cup {{f} : f \in TemplateFiles} \cup {TemplateFiles}

\* (TEMPLATES_DIR / filename).read_text()
ReadText(filename) == "<text of " \o filename \o ">"

\* Lines 160-169: the list comprehension reads every file in order; a read
\* that fails raises, and nothing in the handler catches it.
GetPrTemplatesBody(unreadable) ==
  IF \E i \in 1..Len(DEFAULT_TEMPLATES) : DEFAULT_TEMPLATES[i].filename \in unreadable
  THEN [outcome |-> "raised", result |-> [exception |-> "FileNotFoundError"]]
  ELSE [outcome |-> "returned",
        result |-> [i \in 1..Len(DEFAULT_TEMPLATES) |->
                      [filename |-> DEFAULT_TEMPLATES[i].filename,
                       type |-> DEFAULT_TEMPLATES[i].type,
                       content |-> ReadText(DEFAULT_TEMPLATES[i].filename)]]]

\* Lines 184-186: next((t for t in templates if ...), templates[0])
SelectTemplate(templates, template_file) ==
  IF \E i \in 1..Len(templates) : templates[i].filename = template_file
  THEN LET first == CHOOSE i \in 1..Len(templates) :
                      /\ templates[i].filename = template_file
                      /\ \A j \in 1..(i - 1) : templates[j].filename # template_file
       IN templates[first]
  ELSE templates[1]

\* Lines 180-195.
SuggestTemplateBody(changes_summary, change_type, unreadable) ==
  LET templates_response == GetPrTemplatesBody(unreadable)
  IN IF templates_response.outcome = "raised"
     THEN templates_response
     ELSE LET templates == templates_response.result
              template_file == TypeMappingGet(Lower(change_type), "feature.md")
              selected_template == SelectTemplate(templates, template_file)
          IN [outcome |-> "returned",
              result |->
                [recommended_template |-> selected_template,
                 reasoning |-> <<"Based on your analysis: '", changes_summary,
                                 "', this appears to be a ", change_type, " change.">>,
                 template_content |-> selected_template.content,
                 usage_hint |-> "Claude can help you fill out this template based on the specific changes in your PR."]]

\* Inputs of suggest_template: the synonyms and some other tokens, in several
\* letter cases.
Synonyms ==
  {<<"b", "u", "g">>,
   <<"f", "i", "x">>,
   <<"f", "e", "a", "t", "u", "r", "e">>,
   <<"e", "n", "h", "a", "n", "c", "e", "m", "e", "n", "t">>,
   <<"d", "o", "c", "s">>,
   <<"d", "o", "c", "u", "m", "e", "n", "t", "a", "t", "i", "o", "n">>,
   <<"r", "e", "f", "a", "c", "t", "o", "r">>,
   <<"c", "l", "e", "a", "n", "u", "p">>,
   <<"t", "e", "s", "t">>,
   <<"t", "e", "s", "t", "i", "n", "g">>,
   <<"p", "e", "r", "f", "o", "r", "m", "a", "n", "c", "e">>,
   <<"o", "p", "t", "i", "m", "i", "z", "a", "t", "i", "o", "n">>,
   <<"s", "e", "c", "u", "r", "i", "t", "y">>}

OtherTokens ==
  {<<>>,
   <<"c", "h", "o", "r", "e">>,
   <<"b", "u", "g", "s">>,
   <<"b", "u", "g", " ">>,
   <<"t", "e", "s", "t", "s">>,
   <<"m", "d">>}

UpperChar(c) ==
  IF \E i \in 1..26 : LowerLetters[i] = c
  THEN UpperLetters[CHOOSE i \in 1..26 : LowerLetters[i] = c]
  ELSE c

ApplyCase(word, mask) ==
  [i \in 1..Len(word) |-> IF i \in mask THEN UpperChar(word[i]) ELSE word[i]]

CaseMasks(word) == {{}, 1..Len(word), {1} \cap (1..Len(word)), {Len(word)} \cap (1..Len(word))}

Summaries == {"renamed variables for clarity", ""}

GetPrTemplates ==
  /\ op = "idle"
  /\ \E unreadable \in UnreadableSets :
       LET r == GetPrTemplatesBody(unreadable)
       IN /\ op' = "get_pr_templates"
          /\ args' = NoArgs
          /\ env' = [unreadable |-> unreadable]
          /\ outcome' = r.outcome
          /\ result' = r.result
          /\ calls' = <<>>

SuggestTemplate ==
  /\ op = "idle"
  /\ \E changes_summary \in Summaries, unreadable \in UnreadableSets,
        w \in Synonyms \cup OtherTokens :
       \E mask \in CaseMasks(w) :
         LET change_type == ApplyCase(w, mask)
             r == SuggestTemplateBody(changes_summary, change_type, unreadable)
         IN /\ op' = "suggest_template"
            /\ args' = [changes_summary |-> changes_summary, change_type |-> change_type]
            /\ env' = [unreadable |-> unreadable]
            /\ outcome' = r.outcome
            /\ result' = r.result
            /\ calls' = <<>>

Init ==
  /\ op = "idle"
  /\ args = NoArgs
  /\ env = NoEnv
  /\ outcome = "none"
  /\ result = NoResult
  /\ calls = <<>>

\* The response is sent; the server waits for the next request.
Respond ==
  /\ op # "idle"
  /\ op' = "idle"
  /\ args' = NoArgs
  /\ env' = NoEnv
  /\ outcome' = "none"
  /\ result' = NoResult
  /\ calls' = <<>>

Next ==
  \/ AnalyzeFileChanges
  \/ GetPrTemplates
  \/ SuggestTemplate
  \/ Respond

Spec == Init /\ [][Next]_vars

(***************************************************************************)
(* Vocabulary of the properties.                                           *)
(***************************************************************************)
Analyzed == op = "analyze_file_changes" /\ outcome = "returned"

AnalysisReturned == Analyzed /\ "error" \notin DOMAIN result

PrimarySucceeded == env.files.launched /\ env.files.returncode = 0

DiffAnalysed == AnalysisReturned /\ args.include_diff

\* The number of lines of a text: its newline-terminated lines, plus a last
\* line that is not terminated.  The empty text has no line.
NewlineCount(text) == Cardinality({i \in 1..Len(text) : text[i] = NL})

LineCount(text) ==
  NewlineCount(text) + (IF text # <<>> /\ text[Len(text)] # NL THEN 1 ELSE 0)

\* The lines of a text, in order (a terminating newline opens no further line).
TextLines(text) ==
  LET pieces == StrSplit(text)
  IN IF pieces[Len(pieces)] = <<>> THEN SubSeq(pieces, 1, Len(pieces) - 1) ELSE pieces

FirstN(seq, n) == SubSeq(seq, 1, Min(Max(n, 0), Len(seq)))

TrailerLines ==
  <<TruncatedTrailer(args.max_diff_lines, result.total_diff_lens), UseMoreTrailer>>

\* C1: with include_diff and max_diff_lines >= 0, a returned analysis of a
\* diff text of L lines reports truncated exactly when L > max_diff_lines and
\* reports L as the total line count.
C1_TruncatedIffLonger ==
  (DiffAnalysed /\ args.max_diff_lines >= 0) =>
    LET L == LineCount(env.diff.stdout)
    IN /\ result.truncated = (L > args.max_diff_lines)
       /\ result.total_diff_lens = L

C3_PrimaryFailureIsFatal ==
  (Analyzed /\ env.files.launched /\ env.files.returncode # 0) =>
    /\ DOMAIN result = {"error"}
    /\ result.error = "Git error: " \o env.files.stderr
    /\ Len(calls) = 1
    /\ calls[1].argv = <<"git", "diff", "--name-status", args.base_branch \o "...HEAD">>

C3_Witness ==
  /\ Analyzed
  /\ env.files.launched
  /\ env.files.returncode = 128
  /\ result.error = "Git error: fatal: bad revision\n"
  /\ Len(calls) = 1

\* C4: when the name-status run succeeds, failures of the stat, diff and log
\* runs do not abort the call: the analysis is returned with the status text,
\* and the field of every failed run is the empty string.
C4_SecondaryFailuresDegrade ==
  (Analyzed /\ PrimarySucceeded) =>
    /\ "error" \notin DOMAIN result
    /\ result.files_cahnged = env.files.stdout
    /\ env.stat.returncode # 0 => result.statistics = ""
    /\ env.log.returncode # 0 => result.commits = ""
    /\ (args.include_diff /\ env.diff.returncode # 0) => result.diff = <<>>

\* C5: every git run of a call uses the explicit working_directory if one is
\* given, else the first root of the root listing if it returned one, else
\* the process's current directory.
ExpectedDirectory ==
  IF args.working_directory \notin {None, ""} THEN args.working_directory
  ELSE IF env.first.ok /\ env.first.roots # <<>>
       THEN (IF env.first.roots[1] = "file:///repo" THEN "/repo" ELSE "/other")
       ELSE ProcessCwd

C5_DirectoryResolutionOrder ==
  Analyzed =>
    /\ Len(calls) >= 1
    /\ \A i \in 1..Len(calls) : calls[i].cwd = ExpectedDirectory
    /\ AnalysisReturned => result._debug.actual_cwd = ExpectedDirectory

C5_Witness ==
  /\ AnalysisReturned
  /\ args.working_directory = None
  /\ env.first.ok
  /\ env.first.roots = <<"file:///other", "file:///repo">>
  /\ Len(calls) = 4
  /\ \A i \in 1..4 : calls[i].cwd = "/other"

\* C6: without a working_directory, when the root listing fails the call
\* runs in the process's current directory, still returns the changed-file
\* data, and reports _debug.roots_check.found = false.
C6_RootsFailureRecorded ==
  (Analyzed /\ args.working_directory \in {None, ""} /\ ~env.first.ok) =>
    /\ \A i \in 1..Len(calls) : calls[i].cwd = ProcessCwd
    /\ PrimarySucceeded =>
         /\ "error" \notin DOMAIN result
         /\ result.files_cahnged = env.files.stdout
         /\ result._debug.roots_check.found = FALSE

\* C7: suggest_template recommends the catalog entry that the synonym table
\* gives for the case-folded change_type, and feature.md for any other token.
SynonymTable(word) ==
  CASE word \in {<<"b","u","g">>, <<"f","i","x">>} -> "bug.md"
    [] word \in {<<"f","e","a","t","u","r","e">>,
                 <<"e","n","h","a","n","c","e","m","e","n","t">>} -> "feature.md"
    [] word \in {<<"d","o","c","s">>,
                 <<"d","o","c","u","m","e","n","t","a","t","i","o","n">>} -> "docs.md"
    [] word \in {<<"r","e","f","a","c","t","o","r">>,
                 <<"c","l","e","a","n","u","p">>} -> "refactor.md"
    [] word \in {<<"t","e","s","t">>, <<"t","e","s","t","i","n","g">>} -> "test.md"
    [] word \in {<<"p","e","r","f","o","r","m","a","n","c","e">>,
                 <<"o","p","t","i","m","i","z","a","t","i","o","n">>} -> "performance.md"
    [] word = <<"s","e","c","u","r","i","t","y">> -> "security.md"
    [] OTHER -> "feature.md"

CatalogFilenames ==
  {"bug.md", "feature.md", "docs.md", "refactor.md", "test.md", "performance.md",
   "security.md"}

C7_ResolverIsTotalAndCaseInsensitive ==
  (op = "suggest_template" /\ outcome = "returned") =>
    \A w \in Synonyms \cup OtherTokens :
      \A mask \in CaseMasks(w) :
        args.change_type = ApplyCase(w, mask) =>
          /\ result.recommended_template.filename = SynonymTable(w)
          /\ result.recommended_template.filename \in CatalogFilenames
          /\ result.template_content = ReadText(SynonymTable(w))

C7_Witness ==
  /\ op = "suggest_template"
  /\ outcome = "returned"
  /\ args.change_type = <<"C","L","E","A","N","U","P">>
  /\ result.recommended_template.filename = "refactor.md"

\* C8: every failure of a tool reaches the caller as a returned object with
\* an error key; an unreadable template file makes get_pr_templates and
\* suggest_template return such an object, no exception escapes.
C8_FailuresAreStructured ==
  /\ outcome # "raised"
  /\ (op \in {"get_pr_templates", "suggest_template"} /\ env.unreadable # {}) =>
       (outcome = "returned" /\ "error" \in DOMAIN result)

\* C9: analyze_file_changes returns either the success object with the fields
\* base_branch, files_changed, statistics, commits, diff, truncated,
\* total_diff_lines and _debug, or an object whose only field is error.
C9_ResultShapes ==
  Analyzed =>
    \/ DOMAIN result = {"base_branch", "files_changed", "statistics", "commits",
                        "diff", "truncated", "total_diff_lines", "_debug"}
    \/ DOMAIN result = {"error"}

\* C10: with include_diff and max_diff_lines <= 0 no line of the original
\* diff is in the returned text, the reported total is the original line
\* count, and truncated holds exactly when that count is positive.
C10_NonPositiveMaxShowsNothing ==
  (DiffAnalysed /\ args.max_diff_lines <= 0) =>
    LET L == LineCount(env.diff.stdout)
    IN /\ \A i \in 1..Len(result.diff) : result.diff[i] \notin Chunks \ {NL}
       /\ result.total_diff_lens = L
       /\ result.truncated = (L > 0)

====
